---- MODULE Spec2Model ----
(***************************************************************************)
(* The quiz application of src/index.tsx (class QuizApp) as a state        *)
(* machine.  The fields of QuizApp, the parts of the document its handlers *)
(* rewrite (quiz container, results section, confirmation modal,           *)
(* anti-cheating listeners) and the localStorage keys are the variables.   *)
(* Every handler is an operator from an application state record to the    *)
(* state after the handler returned, so that a handler calling another     *)
(* (startQuiz -> startTimer -> updateTimer -> submitQuiz) is one step.     *)
(*                                                                         *)
(* An intent can be issued whenever the element carrying its listener      *)
(* exists in the document (the radio inputs exist only after               *)
(* renderQuestion, the review button only after renderStudentResult, the   *)
(* interval callback only while the interval is set, the visibility        *)
(* listener only while installed).  The 'hidden' class is presentation:    *)
(* the handlers themselves never test it.  The elements the handlers look  *)
(* up by id ('quiz-container', 'quiz-timer', 'results-section', the        *)
(* buttons and the forms) are taken to exist in the page.                  *)
(***************************************************************************)
EXTENDS Integers, Sequences, FiniteSets, TLC

\* ---------------------------------------------------------------- bounds
MaxSessions == 1
MaxClockSteps == 2
MaxCreated == 1
MaxGenerations == 1
MaxDraws == 2

\* ------------------------------------------------------------- constants
Null == "null"
Undefined == "undefined"
TimerId == 1
MsPerMinute == 60 * 1000
ClockStep == MsPerMinute

\* ------------------------------------------------------------ data model
\* interface MCQ / interface Quiz: the repository the sessions run against.
MCQ(question, options, correctAnswer) ==
    [question |-> question, options |-> options, correctAnswer |-> correctAnswer]

Quiz(id, title, questions, duration) ==
    [id |-> id, title |-> title, questions |-> questions, duration |-> duration]

QuizA ==
    Quiz("AB12CD", "Capitals",
         << MCQ("Capital of France?", <<"Paris", "Rome">>, "Paris"),
            MCQ("Six times seven?", <<"41", "42">>, "42") >>, 1)

QuizB ==
    Quiz("XY34ZW", "Warmup",
         << MCQ("Capital of Italy?", <<"Paris", "Rome">>, "Rome") >>, 2)

\* The quizzes created before the sessions of this model.
InitialQuizzes == [id \in {QuizA.id, QuizB.id} |-> IF id = QuizA.id THEN QuizA ELSE QuizB]

\* The professor seeded by loadDataFromStorage (line 70).
SeedProfessors == [email \in {"professor@test.com"} |-> "password"]
NoProfessors == [email \in {} |-> "password"]
NoQuizzes == [id \in {} |-> QuizA]

\* interface StudentResult
StudentResult(quizId, studentName, studentRoll, studentEmail, score, total, answers) ==
    [quizId |-> quizId, studentName |-> studentName, studentRoll |-> studentRoll,
     studentEmail |-> studentEmail, score |-> score, total |-> total, answers |-> answers]

\* ----------------------------------------------------- JavaScript helpers
\* arr[i] with a 0-based index: undefined outside the array.
ArrayGet(arr, i) == IF i + 1 \in 1..Len(arr) THEN arr[i + 1] ELSE Undefined

\* arr[i] = v with a 0-based index: writing past the end leaves holes.
ArraySet(arr, i, v) ==
    IF i + 1 \in 1..Len(arr)
    THEN [arr EXCEPT ![i + 1] = v]
    ELSE [k \in 1..(i + 1) |-> IF k = i + 1 THEN v
                               ELSE IF k <= Len(arr) THEN arr[k] ELSE Undefined]

\* String.prototype.toUpperCase on the quiz codes a taker can type.
ToUpperCase(str) == IF str = "ab12cd" THEN "AB12CD" ELSE str

\* Mutant of JSONstringifyResult: an unanswered entry is written as "".
JSONstringifyResult_BlankForNull(r) ==
    LET keys == {k \in DOMAIN r : k = "answers" \/ k \in {"score", "total"} \/ r[k] # Undefined}
    IN [k \in keys |-> IF k = "answers"
                       THEN [i \in 1..Len(r.answers) |->
                                IF r.answers[i] \in {Undefined, Null} THEN "" ELSE r.answers[i]]
                       ELSE r[k]]

\* JSON.stringify of the results: a key whose value is undefined is dropped,
\* an undefined array element becomes null.
JSONstringifyResult(r) ==
    LET keys == {k \in DOMAIN r : k = "answers" \/ k \in {"score", "total"} \/ r[k] # Undefined}
    IN [k \in keys |-> IF k = "answers"
                       THEN [i \in 1..Len(r.answers) |->
                                IF r.answers[i] = Undefined THEN Null ELSE r.answers[i]]
                       ELSE r[k]]

JSONstringifyResults(rs) == [i \in 1..Len(rs) |-> JSONstringifyResult(rs[i])]

\* JSON.parse of a stored result: reading a key that was dropped gives undefined.
JSONparseResult(j) ==
    LET get(k) == IF k \in DOMAIN j THEN j[k] ELSE Undefined
    IN StudentResult(get("quizId"), get("studentName"), get("studentRoll"),
                     get("studentEmail"), j.score, j.total, j.answers)

JSONparseResults(js) == [i \in 1..Len(js) |-> JSONparseResult(js[i])]

\* JSON.stringify / JSON.parse of the quizzes: strings and numbers, key by key.
JSONstringifyQuizzes(qs) ==
    [id \in DOMAIN qs |->
        [id |-> qs[id].id, title |-> qs[id].title, duration |-> qs[id].duration,
         questions |-> [i \in 1..Len(qs[id].questions) |->
                          [question |-> qs[id].questions[i].question,
                           options |-> qs[id].questions[i].options,
                           correctAnswer |-> qs[id].questions[i].correctAnswer]]]]

JSONparseQuizzes(js) ==
    [id \in DOMAIN js |->
        Quiz(js[id].id, js[id].title,
             [i \in 1..Len(js[id].questions) |->
                 MCQ(js[id].questions[i].question, js[id].questions[i].options,
                     js[id].questions[i].correctAnswer)],
             js[id].duration)]

\* A localStorage key: getItem gives null (NoItem) or the string last set.
NoItem == << >>
Item(value) == << value >>

\* JSON.parse(localStorage.getItem('currentStudentInfo') || '{}')
ParseStudentInfo(item) ==
    IF item = NoItem
    THEN [name |-> Undefined, roll |-> Undefined, email |-> Undefined]
    ELSE item[1]

\* ------------------------------------------------------------------ state
VARIABLES
    currentView,            \* QuizApp.currentView
    professors,             \* QuizApp.professors
    quizzes,                \* QuizApp.quizzes
    results,                \* QuizApp.results
    activeQuiz,             \* QuizApp.activeQuiz (the id of the Quiz, or Null)
    studentAnswers,         \* QuizApp.studentAnswers
    currentQuestionIndex,   \* QuizApp.currentQuestionIndex (0-based)
    quizTimerInterval,      \* QuizApp.quizTimerInterval (0 is null)
    reviewingResult,        \* QuizApp.reviewingResult (position in results, 0 is null)
    endTime,                \* endTime captured by the live updateTimer closure
    antiCheating,           \* the four document listeners are installed
    confirmationModal,      \* 'confirmation-modal' is shown (not hidden)
    quizContainer,          \* innerHTML of 'quiz-container'
    resultsSection,         \* innerHTML of 'results-section'
    storedProfessors,       \* localStorage 'quizAppProfessors'
    storedQuizzes,          \* localStorage 'quizAppQuizzes'
    storedResults,          \* localStorage 'quizAppResults'
    currentStudentInfo,     \* localStorage 'currentStudentInfo'
    creationModal,          \* 'creation-modal': its form, and what of it is shown
    generations,            \* the generate* calls suspended at their await
    now,                    \* Date.now()
    sessions,               \* history: sessions started so far
    session,                \* history: "none", "active" or "terminated"
    sessionQuiz,            \* history: the quiz the last session was started on
    sessionInfo,            \* history: the identity given at the login that started it
    appended                \* history: Results appended since that session started

appVars == << currentView, professors, quizzes, results, activeQuiz, studentAnswers,
              currentQuestionIndex, quizTimerInterval, reviewingResult, endTime,
              antiCheating, confirmationModal, quizContainer, resultsSection,
              storedProfessors, storedQuizzes, storedResults, currentStudentInfo,
              creationModal, generations >>

vars == << currentView, professors, quizzes, results, activeQuiz, studentAnswers,
           currentQuestionIndex, quizTimerInterval, reviewingResult, endTime,
           antiCheating, confirmationModal, quizContainer, resultsSection,
           storedProfessors, storedQuizzes, storedResults, currentStudentInfo,
           creationModal, generations, now,
           sessions, session, sessionQuiz, sessionInfo, appended >>

\* The application state as one record, the argument of every handler.
Cur ==
    [currentView |-> currentView, professors |-> professors,
     quizzes |-> quizzes, results |-> results,
     activeQuiz |-> activeQuiz, studentAnswers |-> studentAnswers,
     currentQuestionIndex |-> currentQuestionIndex,
     quizTimerInterval |-> quizTimerInterval, reviewingResult |-> reviewingResult,
     endTime |-> endTime, antiCheating |-> antiCheating,
     confirmationModal |-> confirmationModal, quizContainer |-> quizContainer,
     resultsSection |-> resultsSection, storedProfessors |-> storedProfessors,
     storedQuizzes |-> storedQuizzes, storedResults |-> storedResults,
     currentStudentInfo |-> currentStudentInfo,
     creationModal |-> creationModal, generations |-> generations]

Install(s) ==
    /\ currentView' = s.currentView
    /\ professors' = s.professors
    /\ quizzes' = s.quizzes
    /\ results' = s.results
    /\ activeQuiz' = s.activeQuiz
    /\ studentAnswers' = s.studentAnswers
    /\ currentQuestionIndex' = s.currentQuestionIndex
    /\ quizTimerInterval' = s.quizTimerInterval
    /\ reviewingResult' = s.reviewingResult
    /\ endTime' = s.endTime
    /\ antiCheating' = s.antiCheating
    /\ confirmationModal' = s.confirmationModal
    /\ quizContainer' = s.quizContainer
    /\ resultsSection' = s.resultsSection
    /\ storedProfessors' = s.storedProfessors
    /\ storedQuizzes' = s.storedQuizzes
    /\ storedResults' = s.storedResults
    /\ currentStudentInfo' = s.currentStudentInfo
    /\ creationModal' = s.creationModal
    /\ generations' = s.generations

EmptyContainer == [kind |-> "empty", quiz |-> Null, index |-> 0, marks |-> << >>]
EmptyResultsSection == [result |-> 0, message |-> "none"]
\* The creation modal of the page as served: no form yet, nothing shown.
ClosedCreationModal == [body |-> "none", shown |-> FALSE, error |-> FALSE, loading |-> FALSE]

\* --------------------------------------------------------------- handlers
showView(s, viewId) == [s EXCEPT !.currentView = viewId]

saveDataToStorage(s) ==
    [s EXCEPT !.storedProfessors = Item(s.professors),
              !.storedQuizzes = Item(JSONstringifyQuizzes(s.quizzes)),
              !.storedResults = Item(JSONstringifyResults(s.results))]

loadDataFromStorage(s) ==
    LET s1 == IF s.storedProfessors # NoItem /\ DOMAIN s.storedProfessors[1] # {}
              THEN [s EXCEPT !.professors = s.storedProfessors[1]]
              ELSE saveDataToStorage([s EXCEPT !.professors = SeedProfessors])
        s2 == IF s1.storedQuizzes # NoItem
              THEN [s1 EXCEPT !.quizzes = JSONparseQuizzes(s1.storedQuizzes[1])]
              ELSE s1
    IN IF s2.storedResults # NoItem
       THEN [s2 EXCEPT !.results = JSONparseResults(s2.storedResults[1])]
       ELSE s2

showConfirmationModal(s) == [s EXCEPT !.confirmationModal = TRUE]

closeConfirmationModal(s) == [s EXCEPT !.confirmationModal = FALSE]

stopTimer(s) ==
    IF s.quizTimerInterval # 0 THEN [s EXCEPT !.quizTimerInterval = 0] ELSE s

installAntiCheating(s) == [s EXCEPT !.antiCheating = TRUE]

\* Mutant of uninstallAntiCheating: removeEventListener is given another
\* function object than the one that was added, so the listener stays.
uninstallAntiCheating_OtherReference(s) == s

uninstallAntiCheating(s) == [s EXCEPT !.antiCheating = FALSE]

renderQuestion(s) ==
    IF s.activeQuiz = Null THEN s
    ELSE [s EXCEPT !.quizContainer =
            [kind |-> "question", quiz |-> s.activeQuiz, index |-> s.currentQuestionIndex,
             marks |-> << >>]]

\* Mutant of ReviewOptionClasses: every option that is not the correct one
\* is marked incorrect.
ReviewOptionClasses_AllWrongMarked(question, studentAnswer) ==
    [k \in 1..Len(question.options) |->
        {"option-item"}
        \cup (IF question.options[k] = question.correctAnswer
              THEN {"correct"} ELSE {"incorrect"})
        \cup (IF question.options[k] = studentAnswer THEN {"selected"} ELSE {})]

\* The class list renderReviewQuestion gives the <li> of every option
\* (lines 774-785).
ReviewOptionClasses(question, studentAnswer) ==
    [k \in 1..Len(question.options) |->
        {"option-item"}
        \cup (IF question.options[k] = question.correctAnswer THEN {"correct"} ELSE {})
        \cup (IF question.options[k] = studentAnswer
              THEN {"selected"}
                   \cup (IF question.options[k] # question.correctAnswer
                         THEN {"incorrect"} ELSE {})
              ELSE {})]

renderReviewQuestion(s) ==
    IF s.activeQuiz = Null \/ s.reviewingResult = 0 THEN s
    ELSE LET question == s.quizzes[s.activeQuiz].questions[s.currentQuestionIndex + 1]
             studentAnswer == ArrayGet(s.results[s.reviewingResult].answers,
                                       s.currentQuestionIndex)
         IN [s EXCEPT !.quizContainer =
                [kind |-> "review", quiz |-> s.activeQuiz, index |-> s.currentQuestionIndex,
                 marks |-> ReviewOptionClasses(question, studentAnswer)]]

renderStudentResult(s, result, cheated, timedOut) ==
    LET message == IF cheated THEN "cheated" ELSE IF timedOut THEN "timedOut" ELSE "plain"
    IN showView([s EXCEPT !.resultsSection = [result |-> result, message |-> message]],
                "results-section")

\* Mutant of CountCorrect: every answered question scores (partial credit).
CountCorrect_Answered(questions, answers) ==
    Cardinality({i \in 1..Len(questions) :
                    ArrayGet(answers, i - 1) \notin {Null, Undefined}})

\* Mutant of CountCorrect: a wrong selection costs a point (negative marking).
CountCorrect_NegativeMarking(questions, answers) ==
    Cardinality({i \in 1..Len(questions) :
                    ArrayGet(answers, i - 1) = questions[i].correctAnswer})
    - Cardinality({i \in 1..Len(questions) :
                    /\ ArrayGet(answers, i - 1) \notin {Null, Undefined}
                    /\ ArrayGet(answers, i - 1) # questions[i].correctAnswer})

\* The score loop of submitQuiz (lines 619-624).
CountCorrect(questions, answers) ==
    Cardinality({i \in 1..Len(questions) :
                    ArrayGet(answers, i - 1) = questions[i].correctAnswer})

\* Mutant of submitQuiz: the score is stored whether or not the taker cheated.
submitQuiz_NoPenalty(s, cheated, timedOut) ==
    IF s.activeQuiz = Null THEN s
    ELSE
      LET quiz == s.quizzes[s.activeQuiz]
          s1 == uninstallAntiCheating(stopTimer(s))
          score == CountCorrect(quiz.questions, s.studentAnswers)
          studentInfo == ParseStudentInfo(s.currentStudentInfo)
          result == StudentResult(quiz.id, studentInfo.name, studentInfo.roll,
                                  studentInfo.email, score,
                                  Len(quiz.questions), s.studentAnswers)
          s2 == saveDataToStorage([s1 EXCEPT !.results = Append(@, result)])
          s3 == renderStudentResult(s2, Len(s2.results), cheated, timedOut)
      IN [s3 EXCEPT !.activeQuiz = Null, !.studentAnswers = << >>,
                    !.currentQuestionIndex = 0, !.currentStudentInfo = NoItem]

\* Mutant of submitQuiz: a cheater's answers are wiped together with the score.
submitQuiz_ClearsAnswers(s, cheated, timedOut) ==
    IF s.activeQuiz = Null THEN s
    ELSE
      LET quiz == s.quizzes[s.activeQuiz]
          s1 == uninstallAntiCheating(stopTimer(s))
          score == CountCorrect(quiz.questions, s.studentAnswers)
          studentInfo == ParseStudentInfo(s.currentStudentInfo)
          result == StudentResult(quiz.id, studentInfo.name, studentInfo.roll,
                                  studentInfo.email,
                                  IF cheated THEN 0 ELSE score,
                                  Len(quiz.questions),
                                  IF cheated
                                  THEN [i \in 1..Len(s.studentAnswers) |-> Null]
                                  ELSE s.studentAnswers)
          s2 == saveDataToStorage([s1 EXCEPT !.results = Append(@, result)])
          s3 == renderStudentResult(s2, Len(s2.results), cheated, timedOut)
      IN [s3 EXCEPT !.activeQuiz = Null, !.studentAnswers = << >>,
                    !.currentQuestionIndex = 0, !.currentStudentInfo = NoItem]

\* Mutant of submitQuiz: a Result already in the list is overwritten by the
\* new one (one Result per page load).
submitQuiz_ReplacesLast(s, cheated, timedOut) ==
    IF s.activeQuiz = Null THEN s
    ELSE
      LET quiz == s.quizzes[s.activeQuiz]
          s1 == uninstallAntiCheating(stopTimer(s))
          score == CountCorrect(quiz.questions, s.studentAnswers)
          studentInfo == ParseStudentInfo(s.currentStudentInfo)
          result == StudentResult(quiz.id, studentInfo.name, studentInfo.roll,
                                  studentInfo.email,
                                  IF cheated THEN 0 ELSE score,
                                  Len(quiz.questions), s.studentAnswers)
          s2 == saveDataToStorage([s1 EXCEPT !.results =
                                     IF Len(@) = 0 THEN Append(@, result)
                                     ELSE [@ EXCEPT ![Len(@)] = result]])
          s3 == renderStudentResult(s2, Len(s2.results), cheated, timedOut)
      IN [s3 EXCEPT !.activeQuiz = Null, !.studentAnswers = << >>,
                    !.currentQuestionIndex = 0, !.currentStudentInfo = NoItem]

\* Mutant of submitQuiz: the active quiz is not dropped at the end.
submitQuiz_KeepsActiveQuiz(s, cheated, timedOut) ==
    IF s.activeQuiz = Null THEN s
    ELSE
      LET quiz == s.quizzes[s.activeQuiz]
          s1 == uninstallAntiCheating(stopTimer(s))
          score == CountCorrect(quiz.questions, s.studentAnswers)
          studentInfo == ParseStudentInfo(s.currentStudentInfo)
          result == StudentResult(quiz.id, studentInfo.name, studentInfo.roll,
                                  studentInfo.email,
                                  IF cheated THEN 0 ELSE score,
                                  Len(quiz.questions), s.studentAnswers)
          s2 == saveDataToStorage([s1 EXCEPT !.results = Append(@, result)])
          s3 == renderStudentResult(s2, Len(s2.results), cheated, timedOut)
      IN [s3 EXCEPT !.studentAnswers = << >>,
                    !.currentQuestionIndex = 0, !.currentStudentInfo = NoItem]

submitQuiz(s, cheated, timedOut) ==
    IF s.activeQuiz = Null THEN s
    ELSE
      LET quiz == s.quizzes[s.activeQuiz]
          s1 == uninstallAntiCheating(stopTimer(s))
          score == CountCorrect(quiz.questions, s.studentAnswers)
          studentInfo == ParseStudentInfo(s.currentStudentInfo)
          result == StudentResult(quiz.id, studentInfo.name, studentInfo.roll,
                                  studentInfo.email,
                                  IF cheated THEN 0 ELSE score,
                                  Len(quiz.questions), s.studentAnswers)
          s2 == saveDataToStorage([s1 EXCEPT !.results = Append(@, result)])
          s3 == renderStudentResult(s2, Len(s2.results), cheated, timedOut)
      IN [s3 EXCEPT !.activeQuiz = Null, !.studentAnswers = << >>,
                    !.currentQuestionIndex = 0, !.currentStudentInfo = NoItem]

\* Mutant of updateTimer: only the tick that hits the deadline exactly submits.
updateTimer_ExactDeadline(s, t) ==
    IF s.endTime - t = 0 THEN submitQuiz(s, FALSE, TRUE) ELSE s

\* The closure updateTimer of startTimer (lines 657-668).
updateTimer(s, t) ==
    IF s.endTime - t <= 0 THEN submitQuiz(s, FALSE, TRUE) ELSE s

\* Mutant of startTimer: the interval is never set.
startTimer_NoInterval(s, durationInMinutes, t) ==
    LET s1 == [stopTimer(s) EXCEPT !.endTime = t + durationInMinutes * 60 * 1000]
    IN updateTimer(s1, t)

startTimer(s, durationInMinutes, t) ==
    LET s1 == [stopTimer(s) EXCEPT !.endTime = t + durationInMinutes * 60 * 1000]
        s2 == updateTimer(s1, t)
    IN [s2 EXCEPT !.quizTimerInterval = TimerId]

\* Mutant of startQuiz: the question index of the previous use is kept.
startQuiz_KeepIndex(s, quizId, t) ==
    LET quiz == s.quizzes[quizId]
        s1 == [s EXCEPT !.activeQuiz = quizId,
                        !.studentAnswers = [i \in 1..Len(quiz.questions) |-> Null]]
        s2 == startTimer(installAntiCheating(s1), quiz.duration, t)
    IN showView(renderQuestion(s2), "student-quiz-section")

startQuiz(s, quizId, t) ==
    LET quiz == s.quizzes[quizId]
        s1 == [s EXCEPT !.activeQuiz = quizId,
                        !.studentAnswers = [i \in 1..Len(quiz.questions) |-> Null],
                        !.currentQuestionIndex = 0]
        s2 == startTimer(installAntiCheating(s1), quiz.duration, t)
    IN showView(renderQuestion(s2), "student-quiz-section")

\* Mutant of handleStudentLogin: the fields are not checked for emptiness.
handleStudentLogin_NoEmptyCheck(s, codeInput, name, roll, email, t) ==
    LET code == ToUpperCase(codeInput)
    IN IF code \in DOMAIN s.quizzes
       THEN startQuiz([s EXCEPT !.currentStudentInfo =
                               Item([name |-> name, roll |-> roll, email |-> email])],
                      code, t)
       ELSE s

handleStudentLogin(s, codeInput, name, roll, email, t) ==
    LET code == ToUpperCase(codeInput)
    IN IF code = "" \/ name = "" \/ roll = "" \/ email = "" THEN s
       ELSE IF code \in DOMAIN s.quizzes
            THEN startQuiz([s EXCEPT !.currentStudentInfo =
                                    Item([name |-> name, roll |-> roll, email |-> email])],
                           code, t)
            ELSE s

\* Mutant of selectAnswer: the selection always lands in the first slot.
selectAnswer_FirstSlot(s, option) ==
    [s EXCEPT !.studentAnswers = ArraySet(@, 0, option)]

\* The 'change' listener renderQuestion puts on every radio input (lines 586-590).
selectAnswer(s, option) ==
    [s EXCEPT !.studentAnswers = ArraySet(@, s.currentQuestionIndex, option)]

\* Mutant of navigateQuestion: the upper end of the range is not checked.
navigateQuestion_NoUpperCheck(s, direction) ==
    LET newIndex == s.currentQuestionIndex + direction
    IN IF s.activeQuiz # Null /\ newIndex >= 0
       THEN [s EXCEPT !.currentQuestionIndex = newIndex]
       ELSE s

\* Mutant of navigateQuestion: an out-of-range target wraps around.
navigateQuestion_Wrap(s, direction) ==
    IF s.activeQuiz = Null THEN s
    ELSE LET n == Len(s.quizzes[s.activeQuiz].questions)
             s1 == [s EXCEPT !.currentQuestionIndex = (@ + direction + n) % n]
         IN IF s.reviewingResult # 0 THEN renderReviewQuestion(s1) ELSE renderQuestion(s1)

navigateQuestion(s, direction) ==
    LET newIndex == s.currentQuestionIndex + direction
    IN IF /\ s.activeQuiz # Null
          /\ newIndex >= 0
          /\ newIndex < Len(s.quizzes[s.activeQuiz].questions)
       THEN LET s1 == [s EXCEPT !.currentQuestionIndex = newIndex]
            IN IF s.reviewingResult # 0 THEN renderReviewQuestion(s1) ELSE renderQuestion(s1)
       ELSE s

\* Mutant of visibilityChangeHandler: a taker who is being asked to confirm
\* the submission is spared.
visibilityChangeHandler_SparesPending(s, visibilityState) ==
    IF visibilityState = "hidden" /\ ~s.confirmationModal
    THEN submitQuiz(s, TRUE, FALSE) ELSE s

visibilityChangeHandler(s, visibilityState) ==
    IF visibilityState = "hidden" THEN submitQuiz(s, TRUE, FALSE) ELSE s

startReviewMode(s, result) ==
    LET quizId == s.results[result].quizId
    IN IF quizId \notin DOMAIN s.quizzes THEN s
       ELSE LET s1 == [s EXCEPT !.activeQuiz = quizId, !.reviewingResult = result,
                                !.currentQuestionIndex = 0]
            IN showView(renderReviewQuestion(s1), "student-quiz-section")

\* Mutant of endReviewMode: the summary of the latest Result is shown.
endReviewMode_ShowsLatest(s) ==
    IF s.reviewingResult = 0 THEN s
    ELSE LET s1 == [s EXCEPT !.activeQuiz = Null, !.reviewingResult = 0,
                             !.currentQuestionIndex = 0]
         IN renderStudentResult(s1, Len(s.results), FALSE, FALSE)

endReviewMode(s) ==
    IF s.reviewingResult = 0 THEN s
    ELSE LET result == s.reviewingResult
             s1 == [s EXCEPT !.activeQuiz = Null, !.reviewingResult = 0,
                             !.currentQuestionIndex = 0]
         IN renderStudentResult(s1, result, FALSE, FALSE)

\* Mutant of submitQuizBtnClick: the submit button submits without asking.
submitQuizBtnClick_NoConfirmation(s) ==
    IF s.reviewingResult # 0 THEN endReviewMode(s) ELSE submitQuiz(s, FALSE, FALSE)

\* The listeners of addEventListeners (lines 113-128).
submitQuizBtnClick(s) ==
    IF s.reviewingResult # 0 THEN endReviewMode(s) ELSE showConfirmationModal(s)

confirmSubmissionBtnClick(s) == submitQuiz(closeConfirmationModal(s), FALSE, FALSE)

cancelSubmissionBtnClick(s) == closeConfirmationModal(s)

loginAsProfessor(s) == showView(s, "professor-dashboard")

\* ---------------------------------------------------- authoring handlers
\* parseInt on the texts a number input or a radio value can hold: the
\* leading integer, NaN (the empty sequence) when there is none.
ParseInt(str) ==
    CASE str = "0" -> << 0 >>
      [] str = "1" -> << 1 >>
      [] str = "2" -> << 2 >>
      [] str = "3" -> << 3 >>
      [] str = "-5" -> << -5 >>
      [] str = "2.5" -> << 2 >>
      [] OTHER -> << >>

\* !n for a number: NaN and 0 are falsy.
NumberIsFalsy(n) == n = << >> \/ n[1] = 0

\* n < k for a number: false for NaN.
NumberLess(n, k) == n # << >> /\ n[1] < k

\* showError on 'modal-error' (the text of 'login-error' is not part of the state).
showError(s, elementId) ==
    IF elementId = "modal-error" THEN [s EXCEPT !.creationModal.error = TRUE] ELSE s

hideError(s, elementId) ==
    IF elementId = "modal-error" THEN [s EXCEPT !.creationModal.error = FALSE] ELSE s

setModalLoading(s, isLoading) == [s EXCEPT !.creationModal.loading = isLoading]

\* The form of the chosen method replaces the modal body.
showCreationModal(s, method) ==
    [s EXCEPT !.creationModal.body = method, !.creationModal.shown = TRUE]

closeCreationModal(s) ==
    setModalLoading(hideError([s EXCEPT !.creationModal.shown = FALSE], "modal-error"),
                    FALSE)

\* The do-while of createAndSaveQuiz over the ids Math.random gives one
\* after the other: the first that is no key of quizzes, Null while the loop
\* has not ended.
RECURSIVE DoWhileTaken(_, _, _)
DoWhileTaken(draws, qs, k) ==
    IF k > Len(draws) THEN Null
    ELSE IF draws[k] \in DOMAIN qs THEN DoWhileTaken(draws, qs, k + 1)
    ELSE draws[k]

\* quizzes[id] = quiz
PutQuiz(qs, id, quiz) ==
    [k \in DOMAIN qs \cup {id} |-> IF k = id THEN quiz ELSE qs[k]]

\* Mutant of createAndSaveQuiz: the first id is taken, free or not.
createAndSaveQuiz_NoRetry(s, title, questions, duration, draws) ==
    LET newQuizId == draws[1]
        s1 == [s EXCEPT !.quizzes = PutQuiz(@, newQuizId,
                                            Quiz(newQuizId, title, questions, duration))]
    IN closeCreationModal(saveDataToStorage(s1))

createAndSaveQuiz(s, title, questions, duration, draws) ==
    LET newQuizId == DoWhileTaken(draws, s.quizzes, 1)
        s1 == [s EXCEPT !.quizzes = PutQuiz(@, newQuizId,
                                            Quiz(newQuizId, title, questions, duration))]
    IN closeCreationModal(saveDataToStorage(s1))

\* One '.manual-question' element is left incomplete.
ManualQuestionIncomplete(qElem) ==
    \/ qElem.question = ""
    \/ \E k \in 1..Len(qElem.options) : qElem.options[k] = ""
    \/ qElem.correctIndex = Undefined

\* Mutant of saveManualQuiz: an incomplete question is skipped and the others saved.
saveManualQuiz_SkipsIncomplete(s, title, durationInput, questionElements, draws) ==
    LET complete == SelectSeq(questionElements, LAMBDA q : ~ManualQuestionIncomplete(q))
        questions == [i \in 1..Len(complete) |->
                         MCQ(complete[i].question, complete[i].options,
                             ArrayGet(complete[i].options,
                                      ParseInt(complete[i].correctIndex)[1]))]
        duration == ParseInt(durationInput)
    IN IF title = "" \/ Len(questions) = 0 \/ NumberIsFalsy(duration) \/ NumberLess(duration, 1)
       THEN showError(s, "modal-error")
       ELSE createAndSaveQuiz(s, title, questions, duration[1], draws)

saveManualQuiz(s, title, durationInput, questionElements, draws) ==
    IF \E i \in 1..Len(questionElements) : ManualQuestionIncomplete(questionElements[i])
    THEN showError(s, "modal-error")
    ELSE LET questions == [i \in 1..Len(questionElements) |->
                              MCQ(questionElements[i].question, questionElements[i].options,
                                  ArrayGet(questionElements[i].options,
                                           ParseInt(questionElements[i].correctIndex)[1]))]
             duration == ParseInt(durationInput)
         IN IF \/ title = "" \/ Len(questions) = 0
               \/ NumberIsFalsy(duration) \/ NumberLess(duration, 1)
            THEN showError(s, "modal-error")
            ELSE createAndSaveQuiz(s, title, questions, duration[1], draws)

\* generateQuizFromTopic up to its await: the call is suspended holding the
\* title and the duration it read from the form.
generateQuizFromTopic(s, title, topic, numQuestions, durationInput) ==
    LET duration == ParseInt(durationInput)
    IN IF \/ title = "" \/ topic = "" \/ numQuestions = ""
          \/ NumberIsFalsy(duration) \/ NumberLess(duration, 1)
       THEN showError(s, "modal-error")
       ELSE [setModalLoading(s, TRUE) EXCEPT !.generations =
                Append(@, [flow |-> "topic", title |-> title, duration |-> duration[1]])]

\* generateQuizFromPdf up to its first await (file is Undefined when none is chosen).
generateQuizFromPdf(s, title, file, durationInput) ==
    LET duration == ParseInt(durationInput)
    IN IF \/ title = "" \/ file = Undefined
          \/ NumberIsFalsy(duration) \/ NumberLess(duration, 1)
       THEN showError(s, "modal-error")
       ELSE [setModalLoading(s, TRUE) EXCEPT !.generations =
                Append(@, [flow |-> "pdf", title |-> title, duration |-> duration[1]])]

\* Mutant of callGeminiForMCQs: an empty 'mcqs' is returned like any other.
callGeminiForMCQs_NoEmptyCheck(outcome) ==
    IF outcome.kind # "json" THEN [threw |-> TRUE, mcqs |-> << >>]
    ELSE IF "mcqs" \notin DOMAIN outcome.json
         THEN [threw |-> TRUE, mcqs |-> << >>]
         ELSE [threw |-> FALSE, mcqs |-> outcome.json.mcqs]

\* What callGeminiForMCQs makes of the outcome of generateContent: it throws
\* when the request is rejected, when the text is no JSON, when the JSON has
\* no 'mcqs' or an empty one; otherwise it returns 'mcqs' as it came.
callGeminiForMCQs(outcome) ==
    IF outcome.kind # "json" THEN [threw |-> TRUE, mcqs |-> << >>]
    ELSE IF "mcqs" \notin DOMAIN outcome.json \/ Len(outcome.json.mcqs) = 0
         THEN [threw |-> TRUE, mcqs |-> << >>]
         ELSE [threw |-> FALSE, mcqs |-> outcome.json.mcqs]

\* The rest of a generate* call once its awaits have settled with outcome
\* (a rejection also stands for the PDF that cannot be read): try, catch, finally.
generationSettled(s, i, outcome, draws) ==
    LET g == s.generations[i]
        s0 == [s EXCEPT !.generations =
                  SubSeq(@, 1, i - 1) \o SubSeq(@, i + 1, Len(@))]
        mcqs == callGeminiForMCQs(outcome)
        s1 == IF mcqs.threw THEN showError(s0, "modal-error")
              ELSE createAndSaveQuiz(s0, g.title, mcqs.mcqs, g.duration, draws)
    IN setModalLoading(s1, FALSE)

\* The fields of QuizApp as their initialisers leave them (lines 38-52), on
\* the page as served, with the localStorage of s.
FreshPage(s) ==
    [currentView |-> "login-section", professors |-> NoProfessors,
     quizzes |-> NoQuizzes, results |-> << >>, activeQuiz |-> Null, studentAnswers |-> << >>,
     currentQuestionIndex |-> 0, quizTimerInterval |-> 0,
     reviewingResult |-> 0, endTime |-> 0, antiCheating |-> FALSE,
     confirmationModal |-> FALSE, quizContainer |-> EmptyContainer,
     resultsSection |-> EmptyResultsSection,
     storedProfessors |-> s.storedProfessors,
     storedQuizzes |-> s.storedQuizzes,
     storedResults |-> s.storedResults,
     currentStudentInfo |-> s.currentStudentInfo,
     creationModal |-> ClosedCreationModal, generations |-> << >>]

\* new QuizApp() on a freshly loaded page: only localStorage survives.
constructor(s) == loginAsProfessor(loadDataFromStorage(FreshPage(s)))

\* ---------------------------------------------------------------- actions
\* What a taker types into the login form: << code, name, roll, email >>.
LoginInputs ==
    { << "ab12cd", "Ann", "R1", "ann@x" >>,
      << "XY34ZW", "Ann", "R1", "ann@x" >>,
      << "NOPE00", "Ann", "R1", "ann@x" >>,
      << "", "Ann", "R1", "ann@x" >>,
      << "ab12cd", "", "R1", "ann@x" >>,
      << "ab12cd", "Ann", "", "ann@x" >>,
      << "ab12cd", "Ann", "R1", "" >> }
Directions == {-1, 1}
VisibilityStates == {"hidden", "visible"}

\* The options of the question whose radio inputs are in the quiz container.
RenderedOptions ==
    IF quizContainer.kind # "question" THEN {}
    ELSE LET q == quizzes[quizContainer.quiz].questions[quizContainer.index + 1]
         IN {q.options[k] : k \in 1..Len(q.options)}

\* The login starts a session: every field is filled and the code names a quiz.
LoginAccepted(code, name, roll, email) ==
    /\ code # "" /\ name # "" /\ roll # "" /\ email # ""
    /\ ToUpperCase(code) \in DOMAIN quizzes

\* One handler ran to completion on the running page: s is the state it left.
\* The first Result appended after a start terminates that session.
Step(s) ==
    /\ Len(s.results) <= MaxSessions + 1
    /\ Install(s)
    /\ appended' = appended + (Len(s.results) - Len(results))
    /\ session' = IF session = "active" /\ Len(s.results) > Len(results)
                  THEN "terminated" ELSE session
    /\ UNCHANGED << now, sessions, sessionQuiz, sessionInfo >>

StudentLogin ==
    \E in \in LoginInputs :
        LET code == in[1]
            name == in[2]
            roll == in[3]
            email == in[4]
            s == handleStudentLogin(Cur, code, name, roll, email, now)
        IN IF LoginAccepted(code, name, roll, email)
           THEN /\ sessions < MaxSessions
                /\ Install(s)
                /\ sessions' = sessions + 1
                /\ session' = IF Len(s.results) > Len(results) THEN "terminated" ELSE "active"
                /\ sessionQuiz' = ToUpperCase(code)
                /\ sessionInfo' = [name |-> name, roll |-> roll, email |-> email]
                /\ appended' = Len(s.results) - Len(results)
                /\ now' = now
           ELSE Step(s)

SelectAnswer == \E option \in RenderedOptions : Step(selectAnswer(Cur, option))

Navigate == \E direction \in Directions : Step(navigateQuestion(Cur, direction))

SubmitQuizBtnClick == Step(submitQuizBtnClick(Cur))

ConfirmSubmit == Step(confirmSubmissionBtnClick(Cur))

CancelSubmit == Step(cancelSubmissionBtnClick(Cur))

Tick ==
    /\ quizTimerInterval # 0
    /\ Step(updateTimer(Cur, now))

VisibilityChange ==
    /\ antiCheating
    /\ \E visibilityState \in VisibilityStates :
          Step(visibilityChangeHandler(Cur, visibilityState))

ReviewAnswersClick ==
    /\ resultsSection.result # 0
    /\ Step(startReviewMode(Cur, resultsSection.result))

\* window.location.reload(), or the taker reloading the page: the session is gone.
Reload ==
    /\ Install(constructor(Cur))
    /\ session' = "none"
    /\ appended' = 0
    /\ UNCHANGED << now, sessions, sessionQuiz, sessionInfo >>

AdvanceTime ==
    /\ now < MaxClockSteps * ClockStep
    /\ now' = now + ClockStep
    /\ UNCHANGED << appVars, sessions, session, sessionQuiz, sessionInfo, appended >>

\* A page load on a localStorage that holds the seeded professor and the
\* quizzes created so far, and no Result yet.
Init ==
    /\ currentView = "professor-dashboard"
    /\ professors = SeedProfessors
    /\ quizzes = InitialQuizzes
    /\ results = << >>
    /\ activeQuiz = Null
    /\ studentAnswers = << >>
    /\ currentQuestionIndex = 0
    /\ quizTimerInterval = 0
    /\ reviewingResult = 0
    /\ endTime = 0
    /\ antiCheating = FALSE
    /\ confirmationModal = FALSE
    /\ quizContainer = EmptyContainer
    /\ resultsSection = EmptyResultsSection
    /\ storedProfessors = Item(SeedProfessors)
    /\ storedQuizzes = Item(JSONstringifyQuizzes(InitialQuizzes))
    /\ storedResults = Item(<< >>)
    /\ currentStudentInfo = NoItem
    /\ creationModal = ClosedCreationModal
    /\ generations = << >>
    /\ now = 0
    /\ sessions = 0
    /\ session = "none"
    /\ sessionQuiz = Null
    /\ sessionInfo = [name |-> "", roll |-> "", email |-> ""]
    /\ appended = 0

Next ==
    \/ StudentLogin
    \/ SelectAnswer
    \/ Navigate
    \/ SubmitQuizBtnClick
    \/ ConfirmSubmit
    \/ CancelSubmit
    \/ Tick
    \/ VisibilityChange
    \/ ReviewAnswersClick
    \/ Reload
    \/ AdvanceTime

Spec == Init /\ [][Next]_vars

\* ------------------------------------------------------------- liveness
\* Date.now() moves on: within the clock bound, and past it for as long as
\* a deadline set by startTimer lies ahead.
TimePasses ==
    /\ \/ now < MaxClockSteps * ClockStep
       \/ quizTimerInterval # 0 /\ now < endTime
    /\ now' = now + ClockStep
    /\ UNCHANGED << appVars, sessions, session, sessionQuiz, sessionInfo, appended >>

NextLive == Next \/ TimePasses

\* The clock does not stop, and the browser runs the interval callback for
\* as long as the interval is set (setInterval, lines 670-671).
SpecLive == Init /\ [][NextLive]_vars /\ WF_vars(TimePasses) /\ WF_vars(Tick)

\* ------------------------------------------------------------ page load
\* What the three localStorage keys can hold when the page is opened: no
\* item, the JSON of an empty value, the JSON of what an earlier use saved.
StoredResultOfAnn ==
    JSONstringifyResult(StudentResult("AB12CD", "Ann", "R1", "ann@x", 1, 2,
                                      << "Paris", Null >>))

StoredProfessorsItems == {NoItem, Item(NoProfessors), Item(SeedProfessors)}

StoredQuizzesItems ==
    {NoItem, Item(JSONstringifyQuizzes(NoQuizzes)), Item(JSONstringifyQuizzes(InitialQuizzes))}

StoredResultsItems == {NoItem, Item(<< >>), Item(<< StoredResultOfAnn >>)}

\* The page as served, before new QuizApp() has run, on any such storage.
InitLoad ==
    /\ storedProfessors \in StoredProfessorsItems
    /\ storedQuizzes \in StoredQuizzesItems
    /\ storedResults \in StoredResultsItems
    /\ currentView = "login-section"
    /\ professors = NoProfessors
    /\ quizzes = NoQuizzes
    /\ results = << >>
    /\ activeQuiz = Null
    /\ studentAnswers = << >>
    /\ currentQuestionIndex = 0
    /\ quizTimerInterval = 0
    /\ reviewingResult = 0
    /\ endTime = 0
    /\ antiCheating = FALSE
    /\ confirmationModal = FALSE
    /\ quizContainer = EmptyContainer
    /\ resultsSection = EmptyResultsSection
    /\ currentStudentInfo = NoItem
    /\ creationModal = ClosedCreationModal
    /\ generations = << >>
    /\ now = 0
    /\ sessions = 0
    /\ session = "none"
    /\ sessionQuiz = Null
    /\ sessionInfo = [name |-> "", roll |-> "", email |-> ""]
    /\ appended = 0

\* new QuizApp() has run (loadDataFromStorage leaves professors non-empty).
Constructed == professors # NoProfessors

\* The page is constructed (Reload), and then used.
NextLoad ==
    \/ Reload
    \/ Constructed /\ StudentLogin
    \/ Constructed /\ ConfirmSubmit
    \/ Constructed /\ VisibilityChange
    \/ Constructed /\ SelectAnswer
    \/ Constructed /\ Navigate

SpecLoad == InitLoad /\ [][NextLoad]_vars

\* ------------------------------------------------------------- authoring
\* What the professor can have typed into the manual form when it is submitted.
QOk ==
    [question |-> "Largest planet?",
     options |-> << "Mars", "Venus", "Jupiter", "Saturn" >>, correctIndex |-> "2"]
QFirst ==
    [question |-> "Smallest prime?",
     options |-> << "2", "3", "5", "7" >>, correctIndex |-> "0"]
QNoText == [QOk EXCEPT !.question = ""]
QBlankOption == [QOk EXCEPT !.options = << "Mars", "", "Jupiter", "Saturn" >>]
QUnchecked == [QOk EXCEPT !.correctIndex = Undefined]

ManualInput(title, durationInput, questionElements) ==
    [title |-> title, durationInput |-> durationInput,
     questionElements |-> questionElements]

ManualInputs ==
    { ManualInput("Planets", "3", << QOk >>),
      ManualInput("Planets", "2.5", << QOk, QFirst >>),
      ManualInput("", "3", << QOk >>),
      ManualInput("Planets", "", << QOk >>),
      ManualInput("Planets", "0", << QOk >>),
      ManualInput("Planets", "-5", << QOk >>),
      ManualInput("Planets", "3", << QUnchecked >>),
      ManualInput("Planets", "3", << QOk, QBlankOption >>),
      ManualInput("Planets", "3", << QNoText, QFirst >>) }

\* title, topic, number of questions, duration of the topic form
TopicInputs ==
    { << "Stars", "stars", "1", "3" >>,
      << "", "stars", "1", "3" >>,
      << "Stars", "", "1", "3" >>,
      << "Stars", "stars", "", "3" >>,
      << "Stars", "stars", "1", "0" >> }

\* title, chosen file, duration of the PDF form
PdfInputs ==
    { << "Notes", "notes.pdf", "2.5" >>,
      << "", "notes.pdf", "3" >>,
      << "Notes", Undefined, "3" >>,
      << "Notes", "notes.pdf", "-5" >> }

\* A generated set as the schema asks for it, and one whose correct answer
\* is given as a letter instead of the option text.
GoodMcqs == << MCQ("Closest star?", << "Sun", "Sirius", "Vega", "Rigel" >>, "Sun") >>
BadMcqs == << MCQ("Closest star?", << "Sun", "Sirius", "Vega", "Rigel" >>, "A") >>

\* How the awaits of a generate* call can settle.
GeminiOutcomes ==
    { [kind |-> "rejected"],
      [kind |-> "text"],
      [kind |-> "json", json |-> [error |-> "quota"]],
      [kind |-> "json", json |-> [mcqs |-> << >>]],
      [kind |-> "json", json |-> [mcqs |-> GoodMcqs]],
      [kind |-> "json", json |-> [mcqs |-> BadMcqs]] }

\* The ids Math.random().toString(36).substring(2, 8).toUpperCase() can give:
\* one that is taken, one that is free, one cut short by a short fraction.
IdCandidates == {"AB12CD", "K7M2QX", "P9"}

DrawSeqs == UNION {[1..n -> IdCandidates] : n \in 1..MaxDraws}

\* The runs of Math.random on which the do-while ends within MaxDraws rounds.
FreshDraws(qs) == {draws \in DrawSeqs : DoWhileTaken(draws, qs, 1) # Null}

Methods == {"manual", "topic", "pdf"}

AuthoringStep(s) ==
    /\ Cardinality(DOMAIN s.quizzes) <= Cardinality(DOMAIN InitialQuizzes) + MaxCreated
    /\ Len(s.generations) <= MaxGenerations
    /\ Step(s)

ShowCreationModal == \E method \in Methods : AuthoringStep(showCreationModal(Cur, method))

CloseCreationModal == AuthoringStep(closeCreationModal(Cur))

SaveManualQuiz ==
    /\ creationModal.body = "manual"
    /\ \E in \in ManualInputs, draws \in FreshDraws(quizzes) :
          AuthoringStep(saveManualQuiz(Cur, in.title, in.durationInput,
                                       in.questionElements, draws))

GenerateQuizFromTopic ==
    /\ creationModal.body = "topic"
    /\ \E in \in TopicInputs :
          AuthoringStep(generateQuizFromTopic(Cur, in[1], in[2], in[3], in[4]))

GenerateQuizFromPdf ==
    /\ creationModal.body = "pdf"
    /\ \E in \in PdfInputs :
          AuthoringStep(generateQuizFromPdf(Cur, in[1], in[2], in[3]))

GenerationSettles ==
    \E i \in 1..Len(generations), outcome \in GeminiOutcomes,
       draws \in FreshDraws(quizzes) :
          AuthoringStep(generationSettled(Cur, i, outcome, draws))

\* The professor's side of the page, with a taker's session for the results.
NextAuthoring ==
    \/ ShowCreationModal
    \/ CloseCreationModal
    \/ SaveManualQuiz
    \/ GenerateQuizFromTopic
    \/ GenerateQuizFromPdf
    \/ GenerationSettles
    \/ StudentLogin
    \/ ConfirmSubmit
    \/ Reload

SpecAuthoring == Init /\ [][NextAuthoring]_vars

\* ----------------------------------------------------------------- claims
Last(seq) == seq[Len(seq)]

\* The Results a handler appended, given the state s it left.
Appended(s) == {s.results[i] : i \in (Len(results) + 1)..Len(s.results)}

\* The number of positions at which answers matches the correct answer.
RECURSIVE Matches(_, _, _)
Matches(questions, answers, i) ==
    IF i = 0 THEN 0
    ELSE Matches(questions, answers, i - 1)
         + (IF i <= Len(answers) /\ answers[i] = questions[i].correctAnswer THEN 1 ELSE 0)

\* The Result the results section shows.
ShownResult == results[resultsSection.result]

\* C1: a session is finalized exactly once: once it has terminated it has
\* exactly one Result, and confirmSubmit and forceSubmit (for the timeout and
\* for the violation) change no state, also while the Result is reviewed.
C1_FinalizedExactlyOnce ==
    session = "terminated" =>
        /\ appended = 1
        /\ \A cheated \in BOOLEAN, timedOut \in BOOLEAN :
              submitQuiz(Cur, cheated, timedOut) = Cur

\* C2: a Result appended because the page became hidden has score 0, whatever
\* the answers are.
C2_ViolationScoresZero ==
    antiCheating =>
        \A r \in Appended(visibilityChangeHandler(Cur, "hidden")) : r.score = 0

C2_Witness ==
    /\ resultsSection.message = "cheated"
    /\ session = "terminated"
    /\ ShownResult.score = 0
    /\ Matches(quizzes[sessionQuiz].questions, ShownResult.answers, ShownResult.total)
          = ShownResult.total

\* C3: a Result appended because the page became hidden stores the answers
\* selected so far, position by position, unanswered ones still unanswered.
C3_ViolationKeepsAnswers ==
    antiCheating =>
        \A r \in Appended(visibilityChangeHandler(Cur, "hidden")) :
            r.answers = studentAnswers

C3_Witness ==
    /\ resultsSection.message = "cheated"
    /\ session = "terminated"
    /\ ShownResult.score = 0
    /\ ShownResult.answers = << "Paris", Null >>

\* C4: a Result appended by confirmSubmit or by the timer running out has as
\* score the number of positions whose answer is the question's correctAnswer.
C4_ScoreCountsMatches ==
    /\ \A r \in Appended(confirmSubmissionBtnClick(Cur)) :
          r.score = Matches(quizzes[r.quizId].questions, r.answers,
                            Len(quizzes[r.quizId].questions))
    /\ quizTimerInterval # 0 =>
          \A r \in Appended(updateTimer(Cur, now)) :
              r.score = Matches(quizzes[r.quizId].questions, r.answers,
                                Len(quizzes[r.quizId].questions))

C4_Witness ==
    /\ resultsSection.message = "plain"
    /\ session = "terminated"
    /\ ShownResult.answers = << "Paris", "41" >>
    /\ ShownResult.score = 1
    /\ ShownResult.total = 2

\* C5: every Result has 0 <= score <= total, and total is the number of
\* questions of its quiz.
C5_ScoreWithinTotal ==
    \A i \in 1..Len(results) :
        /\ 0 <= results[i].score
        /\ results[i].score <= results[i].total
        /\ results[i].total = Len(quizzes[results[i].quizId].questions)

C5_Witness ==
    \E i \in 1..Len(results) :
        /\ results[i].total = 2
        /\ results[i].score = 2
        /\ results[i].answers = << "Paris", "42" >>

\* C6: the answers of the active session and the answers of every Result are
\* as long as the questions of their quiz.
C6_AnswersParallelToQuestions ==
    /\ session = "active" =>
          Len(studentAnswers) = Len(quizzes[sessionQuiz].questions)
    /\ \A i \in 1..Len(results) :
          Len(results[i].answers) = Len(quizzes[results[i].quizId].questions)

\* C7: while a quiz is taken or reviewed, currentQuestionIndex is the index
\* of one of its questions.
C7_IndexInRange ==
    activeQuiz # Null =>
        /\ 0 <= currentQuestionIndex
        /\ currentQuestionIndex <= Len(quizzes[activeQuiz].questions) - 1

C7_Witness ==
    /\ reviewingResult # 0
    /\ activeQuiz # Null
    /\ currentQuestionIndex = 1
    /\ navigateQuestion(Cur, 1).currentQuestionIndex = 1

\* C8: navigating to a target outside the quiz changes nothing at all.
C8_OutOfRangeNavigateRejected ==
    \A direction \in Directions :
        ( /\ activeQuiz # Null
          /\ \/ currentQuestionIndex + direction < 0
             \/ currentQuestionIndex + direction > Len(quizzes[activeQuiz].questions) - 1 )
        => navigateQuestion(Cur, direction) = Cur

C8_Witness ==
    /\ session = "active"
    /\ activeQuiz = QuizA.id
    /\ currentQuestionIndex = 1
    /\ studentAnswers[1] # Null
    /\ confirmationModal
    /\ navigateQuestion(Cur, 1) = Cur
    /\ navigateQuestion(Cur, -1) # Cur

\* C9: a login that is accepted leaves, from any state, the first question
\* current, every answer unanswered, the timer set to run out duration
\* minutes from now and the anti-cheating listeners installed.
C9_StartResetsSession ==
    \A in \in LoginInputs :
        LoginAccepted(in[1], in[2], in[3], in[4]) =>
            LET s == handleStudentLogin(Cur, in[1], in[2], in[3], in[4], now)
                quiz == quizzes[ToUpperCase(in[1])]
            IN /\ s.activeQuiz = quiz.id
               /\ s.currentQuestionIndex = 0
               /\ Len(s.studentAnswers) = Len(quiz.questions)
               /\ \A i \in 1..Len(quiz.questions) : s.studentAnswers[i] = Null
               /\ s.quizTimerInterval # 0
               /\ s.endTime = now + quiz.duration * MsPerMinute
               /\ s.antiCheating
               /\ s.results = results

C9_Witness ==
    /\ session = "active"
    /\ now > 0
    /\ activeQuiz = QuizB.id
    /\ currentQuestionIndex = 0
    /\ studentAnswers = << Null >>
    /\ quizTimerInterval # 0
    /\ endTime = now + 2 * MsPerMinute
    /\ antiCheating

\* C10: in an active session selecting an option records it for the current
\* question and changes nothing else; selecting it again changes nothing.
C10_SelectAnswerSetsCurrent ==
    session = "active" =>
        \A option \in RenderedOptions :
            LET s == selectAnswer(Cur, option)
            IN /\ Len(s.studentAnswers) = Len(studentAnswers)
               /\ \A i \in 1..Len(studentAnswers) :
                     s.studentAnswers[i] = IF i = currentQuestionIndex + 1
                                           THEN option ELSE studentAnswers[i]
               /\ s = [Cur EXCEPT !.studentAnswers = s.studentAnswers]
               /\ selectAnswer(s, option) = s

C10_Witness ==
    /\ session = "active"
    /\ currentQuestionIndex = 1
    /\ studentAnswers = << "Rome", "42" >>
    /\ selectAnswer(Cur, "41").studentAnswers = << "Rome", "41" >>

\* The page holds a session that is not over: a quiz is active and it is not
\* a Result under review (startQuiz sets activeQuiz, submitQuiz clears it,
\* startReviewMode sets it together with reviewingResult).
LiveSession == activeQuiz # Null /\ reviewingResult = 0

\* C11: a selectAnswer issued after the session has terminated is a no-op:
\* it leaves the state of the page as it was.
C11_SelectAfterTerminationNoOp ==
    session = "terminated" =>
        \A option \in RenderedOptions : selectAnswer(Cur, option) = Cur

\* C12: in a live session the submit button only opens the confirmation: no
\* Result is appended, the timer and the integrity monitor stay armed and
\* nothing else changes; cancelling afterwards gives back the answers, the
\* index, the deadline and the results as they were; confirming afterwards
\* appends the one Result.
C12_RequestSubmitOnlyPends ==
    LiveSession =>
        LET s == submitQuizBtnClick(Cur)
            c == cancelSubmissionBtnClick(s)
            f == confirmSubmissionBtnClick(s)
        IN /\ s = [Cur EXCEPT !.confirmationModal = TRUE]
           /\ s.results = results
           /\ s.quizTimerInterval = quizTimerInterval
           /\ s.antiCheating = antiCheating
           /\ c = [Cur EXCEPT !.confirmationModal = FALSE]
           /\ Len(f.results) = Len(results) + 1
           /\ f.activeQuiz = Null

C12_Witness ==
    /\ session = "active"
    /\ LiveSession
    /\ confirmationModal
    /\ results = << >>
    /\ quizTimerInterval # 0
    /\ antiCheating
    /\ studentAnswers = << "Paris", Null >>
    /\ currentQuestionIndex = 1

\* C13: a tick of a live session at or after the deadline, by however many
\* clock steps, ends it with the timed-out Result; a tick before the deadline
\* changes nothing.
C13_TickTerminatesAtDeadline ==
    (LiveSession /\ quizTimerInterval # 0) =>
        LET s == updateTimer(Cur, now)
        IN IF endTime - now <= 0
           THEN /\ Len(s.results) = Len(results) + 1
                /\ s.resultsSection = [result |-> Len(s.results), message |-> "timedOut"]
                /\ s.activeQuiz = Null
                /\ s.quizTimerInterval = 0
                /\ ~s.antiCheating
           ELSE s = Cur

C13_Witness ==
    /\ session = "terminated"
    /\ appended = 1
    /\ resultsSection.message = "timedOut"
    /\ now - endTime >= ClockStep
    /\ quizTimerInterval = 0

\* C14: the timer and the integrity monitor are armed in every state of an
\* active session, pending confirmation included, and disarmed in every other
\* state: after the termination on any path, during the review, after a reload.
C14_ArmedExactlyWhileActive ==
    /\ session = "active" => (quizTimerInterval # 0 /\ antiCheating)
    /\ session # "active" => (quizTimerInterval = 0 /\ ~antiCheating)

C14_Witness ==
    /\ session = "terminated"
    /\ resultsSection.message = "cheated"
    /\ reviewingResult # 0
    /\ quizTimerInterval = 0
    /\ ~antiCheating

\* C15: the page becoming hidden during a live session, pending confirmation
\* or not, ends the session inside the handler: the Result is appended with
\* score 0 and shown as an integrity violation, timer and monitor are off.
C15_ViolationTerminatesAtOnce ==
    (LiveSession /\ antiCheating) =>
        LET s == visibilityChangeHandler(Cur, "hidden")
        IN /\ Len(s.results) = Len(results) + 1
           /\ Last(s.results).score = 0
           /\ Last(s.results).answers = studentAnswers
           /\ s.resultsSection = [result |-> Len(s.results), message |-> "cheated"]
           /\ s.activeQuiz = Null
           /\ s.quizTimerInterval = 0
           /\ ~s.antiCheating
           /\ visibilityChangeHandler(Cur, "visible") = Cur

C15_Witness ==
    /\ session = "terminated"
    /\ appended = 1
    /\ resultsSection.message = "cheated"
    /\ confirmationModal
    /\ Last(results).score = 0
    /\ Last(results).answers = << "Paris", "42" >>

\* The three terminating events of a session.
Terminators == {"confirm", "tick", "violation"}

Terminate(kind, s) ==
    CASE kind = "confirm" -> confirmSubmissionBtnClick(s)
      [] kind = "tick" -> updateTimer(s, now)
      [] kind = "violation" -> visibilityChangeHandler(s, "hidden")

\* C16: with a confirmation pending, the deadline passed and the page hidden
\* all outstanding on a live session, whichever of the three is handled first
\* appends the one Result, scored by its own policy (0 only for the
\* violation), and whichever is handled next appends nothing and changes
\* nothing but the confirmation dialog that confirm closes.
C16_FirstTerminatorWins ==
    (LiveSession /\ quizTimerInterval # 0 /\ antiCheating /\ endTime - now <= 0) =>
        \A first \in Terminators, second \in Terminators :
            LET s1 == Terminate(first, Cur)
                s2 == Terminate(second, s1)
                quiz == quizzes[activeQuiz]
            IN /\ Len(s1.results) = Len(results) + 1
               /\ Last(s1.results).score =
                     IF first = "violation" THEN 0
                     ELSE Matches(quiz.questions, studentAnswers, Len(quiz.questions))
               /\ s1.resultsSection.message =
                     CASE first = "violation" -> "cheated"
                       [] first = "tick" -> "timedOut"
                       [] first = "confirm" -> "plain"
               /\ s2.results = s1.results
               /\ s2 = IF second = "confirm" THEN closeConfirmationModal(s1) ELSE s1

C16_Witness ==
    /\ session = "terminated"
    /\ appended = 1
    /\ confirmationModal
    /\ endTime - now <= 0
    /\ resultsSection.message = "cheated"
    /\ Last(results).score = 0
    /\ confirmSubmissionBtnClick(Cur).results = results
    /\ updateTimer(Cur, now) = Cur

\* C17: a taker login with an unknown quiz code or with the code, the name,
\* the roll number or the e-mail address empty starts nothing: the handler
\* leaves the whole state, quizzes and results included, as it was.
C17_RejectedLoginStartsNothing ==
    \A in \in LoginInputs :
        ~LoginAccepted(in[1], in[2], in[3], in[4]) =>
            handleStudentLogin(Cur, in[1], in[2], in[3], in[4], now) = Cur

C17_Witness ==
    /\ session = "none"
    /\ activeQuiz = Null
    /\ Len(results) = 1
    /\ currentView = "professor-dashboard"
    /\ \E in \in LoginInputs : ~LoginAccepted(in[1], in[2], in[3], in[4])
    /\ handleStudentLogin(Cur, "NOPE00", "Ann", "R1", "ann@x", now) = Cur
    /\ handleStudentLogin(Cur, "ab12cd", "", "R1", "ann@x", now) = Cur

\* The states in which a manual save, or a generation settling, can leave
\* the page, over every input and every run of Math.random.
ManualSaves ==
    {saveManualQuiz(Cur, in.title, in.durationInput, in.questionElements, draws) :
        in \in ManualInputs, draws \in FreshDraws(quizzes)}

Settlements ==
    {generationSettled(Cur, i, outcome, draws) :
        i \in 1..Len(generations), outcome \in GeminiOutcomes,
        draws \in FreshDraws(quizzes)}

\* s has the quizzes of the current state, each as it is, and one more under
\* an id that was free; the stored copy follows.
AddsOneFreshQuiz(s) ==
    /\ Cardinality(DOMAIN s.quizzes \ DOMAIN quizzes) = 1
    /\ DOMAIN quizzes \subseteq DOMAIN s.quizzes
    /\ \A id \in DOMAIN quizzes : s.quizzes[id] = quizzes[id]
    /\ \A id \in DOMAIN s.quizzes : s.quizzes[id].id = id
    /\ s.storedQuizzes = Item(JSONstringifyQuizzes(s.quizzes))

\* C18: every manual save and every settled generation either creates
\* nothing or adds exactly one quiz under an id no quiz had, leaving every
\* existing quiz (title, questions, duration) as it was, also when the
\* first id drawn is taken.
C18_CreationAddsOneFreshQuiz ==
    \A s \in ManualSaves \cup Settlements :
        s.quizzes = quizzes \/ AddsOneFreshQuiz(s)

C18_Witness ==
    /\ Cardinality(DOMAIN quizzes) = 3
    /\ "K7M2QX" \in DOMAIN quizzes
    /\ quizzes["K7M2QX"].title = "Planets"
    /\ quizzes["AB12CD"] = QuizA
    /\ quizzes["XY34ZW"] = QuizB
    /\ creationModal.body = "manual"
    /\ << "AB12CD", "P9" >> \in FreshDraws(quizzes)
    /\ AddsOneFreshQuiz(createAndSaveQuiz(Cur, "Planets", GoodMcqs, 3, << "AB12CD", "P9" >>))

\* The inputs and outcomes the handlers are to refuse.
ManualInputRefused(in) ==
    \/ in.title = ""
    \/ in.durationInput \in {"", "0", "-5"}
    \/ \E i \in 1..Len(in.questionElements) :
          in.questionElements[i] \in {QNoText, QBlankOption, QUnchecked}

OutcomeFailed(outcome) ==
    outcome \notin { [kind |-> "json", json |-> [mcqs |-> GoodMcqs]],
                     [kind |-> "json", json |-> [mcqs |-> BadMcqs]] }

\* s differs from the current state in the creation modal and the suspended
\* generations at most.
RepositoryUntouched(s) ==
    s = [Cur EXCEPT !.creationModal = s.creationModal, !.generations = s.generations]

\* C19: a manual save with a field missing, a question incomplete or a
\* duration that is not a number >= 1, and a generation whose request is
\* rejected or answers with no JSON or no questions, create no quiz: the
\* quizzes and the results, in memory and in storage, stay as they were,
\* and the error is shown.
C19_FailedAuthoringChangesNothing ==
    /\ \A in \in ManualInputs, draws \in FreshDraws(quizzes) :
          ManualInputRefused(in) =>
              LET s == saveManualQuiz(Cur, in.title, in.durationInput,
                                      in.questionElements, draws)
              IN RepositoryUntouched(s) /\ s.creationModal.error
    /\ \A i \in 1..Len(generations), outcome \in GeminiOutcomes,
          draws \in FreshDraws(quizzes) :
          OutcomeFailed(outcome) =>
              LET s == generationSettled(Cur, i, outcome, draws)
              IN /\ RepositoryUntouched(s)
                 /\ s.creationModal.error
                 /\ Len(s.generations) = Len(generations) - 1

C19_Witness ==
    /\ creationModal.error
    /\ creationModal.body = "topic"
    /\ generations = << >>
    /\ quizzes = InitialQuizzes
    /\ storedQuizzes = Item(JSONstringifyQuizzes(InitialQuizzes))
    /\ Len(results) = 1
    /\ ~creationModal.loading

\* C20: the correct answer of every question of every quiz in the
\* repository is one of the options of that question.
C20_CorrectAnswerAmongOptions ==
    \A id \in DOMAIN quizzes :
        \A i \in 1..Len(quizzes[id].questions) :
            LET q == quizzes[id].questions[i]
            IN \E k \in 1..Len(q.options) : q.options[k] = q.correctAnswer

\* C21: every quiz in the repository has at least one question and a
\* duration that is an integer >= 1, whichever flow created it and whatever
\* was typed or generated; so has every quiz a login can start.
C21_QuizzesWellFormed ==
    /\ \A id \in DOMAIN quizzes :
          /\ Len(quizzes[id].questions) >= 1
          /\ quizzes[id].duration \in Int
          /\ quizzes[id].duration >= 1
    /\ \A s \in ManualSaves \cup Settlements :
          \A id \in DOMAIN s.quizzes :
              /\ Len(s.quizzes[id].questions) >= 1
              /\ s.quizzes[id].duration \in Int
              /\ s.quizzes[id].duration >= 1

C21_Witness ==
    /\ "P9" \in DOMAIN quizzes
    /\ quizzes["P9"].title = "Notes"
    /\ quizzes["P9"].duration = 2
    /\ Len(quizzes["P9"].questions) = 1
    /\ generations = << >>

\* The states in which one handler, run on the state s, can leave the page:
\* every listener whose element exists in s, the interval callback while the
\* interval is set, and a reload.
OptionsRenderedIn(s) ==
    IF s.quizContainer.kind # "question" THEN {}
    ELSE LET q == s.quizzes[s.quizContainer.quiz].questions[s.quizContainer.index + 1]
         IN {q.options[k] : k \in 1..Len(q.options)}

HandlerOutcomes(s) ==
    {handleStudentLogin(s, in[1], in[2], in[3], in[4], now) : in \in LoginInputs}
    \cup {selectAnswer(s, option) : option \in OptionsRenderedIn(s)}
    \cup {navigateQuestion(s, direction) : direction \in Directions}
    \cup {submitQuizBtnClick(s), confirmSubmissionBtnClick(s), cancelSubmissionBtnClick(s),
          constructor(s)}
    \cup (IF s.quizTimerInterval # 0
          THEN {updateTimer(s, now + k * ClockStep) : k \in 0..MaxClockSteps} ELSE {})
    \cup (IF s.antiCheating
          THEN {visibilityChangeHandler(s, v) : v \in VisibilityStates} ELSE {})
    \cup (IF s.resultsSection.result # 0
          THEN {startReviewMode(s, s.resultsSection.result)} ELSE {})

\* Every Result of the current state is in rs at its place, as it is.
ResultsKeptIn(rs) ==
    /\ Len(rs) >= Len(results)
    /\ \A i \in 1..Len(results) : rs[i] = results[i]

\* C22: no handler, and no handler run after another one (a selection, a
\* navigation or a submission in a session that a new login started, a
\* review, a reload), removes, moves or changes a Result of the list.
C22_ResultsAppendOnly ==
    \A s1 \in HandlerOutcomes(Cur) :
        /\ ResultsKeptIn(s1.results)
        /\ \A s2 \in HandlerOutcomes(s1) : ResultsKeptIn(s2.results)

C22_Witness ==
    /\ Len(results) = 2
    /\ session = "none"
    /\ results[1].answers = << "Paris", "42" >>
    /\ results[1].score = 2
    /\ results[1].studentName = "Ann"
    /\ \E s1 \in HandlerOutcomes(Cur) :
          /\ s1.activeQuiz = "AB12CD"
          /\ \E s2 \in HandlerOutcomes(s1) :
                Len(s2.results) = 3 /\ ResultsKeptIn(s2.results)

\* C23: while a Result is under review, a navigation changes the question
\* index and the question shown and nothing else, by the in-range rule of a
\* session; beginning a review changes no Result; ending it shows the
\* summary of the very Result that was reviewed and leaves the list as it was.
C23_ReviewReadOnly ==
    /\ reviewingResult # 0 =>
          /\ \A direction \in Directions :
                LET s == navigateQuestion(Cur, direction)
                    newIndex == currentQuestionIndex + direction
                IN /\ s = [Cur EXCEPT !.currentQuestionIndex = s.currentQuestionIndex,
                                      !.quizContainer = s.quizContainer]
                   /\ activeQuiz # Null =>
                         s.currentQuestionIndex =
                            IF newIndex \in 0..(Len(quizzes[activeQuiz].questions) - 1)
                            THEN newIndex ELSE currentQuestionIndex
          /\ LET e == submitQuizBtnClick(Cur)
             IN /\ e.results = results
                /\ e.storedResults = storedResults
                /\ e.resultsSection.result = reviewingResult
                /\ e.currentView = "results-section"
                /\ e.reviewingResult = 0
    /\ resultsSection.result # 0 =>
          LET b == startReviewMode(Cur, resultsSection.result)
          IN /\ b.results = results
             /\ b.storedResults = storedResults
             /\ b.reviewingResult = resultsSection.result
             /\ endReviewMode(b).resultsSection.result = resultsSection.result

C23_Witness ==
    /\ reviewingResult = 1
    /\ Len(results) = 2
    /\ quizContainer.kind = "review"
    /\ quizContainer.index = 1
    /\ currentQuestionIndex = 1
    /\ results[1].answers = << "Rome", "42" >>
    /\ submitQuizBtnClick(Cur).resultsSection.result = 1

\* The question and the answer the review list in the quiz container was
\* rendered from.
ReviewedQuestion == quizzes[quizContainer.quiz].questions[quizContainer.index + 1]
ReviewedAnswer == ArrayGet(results[reviewingResult].answers, quizContainer.index)

\* C24: in the review list the quiz container holds, an option is marked correct exactly when it is
\* the correct answer of the question, selected exactly when it is the answer
\* the Result holds for the question, incorrect exactly when it is selected
\* and not correct; with no answer held, no option is marked selected.
C24_ReviewMarks ==
    (quizContainer.kind = "review" /\ reviewingResult # 0) =>
        LET q == ReviewedQuestion
            a == ReviewedAnswer
            classes == quizContainer.marks
        IN /\ DOMAIN classes = 1..Len(q.options)
           /\ \A k \in 1..Len(q.options) :
                 /\ "correct" \in classes[k] <=> q.options[k] = q.correctAnswer
                 /\ "selected" \in classes[k] <=>
                       (a \notin {Null, Undefined} /\ q.options[k] = a)
                 /\ "incorrect" \in classes[k] <=>
                       ("selected" \in classes[k] /\ "correct" \notin classes[k])
           /\ a \in {Null, Undefined} =>
                 \A k \in 1..Len(q.options) : "selected" \notin classes[k]

C24_Witness ==
    /\ quizContainer.kind = "review"
    /\ quizContainer.quiz = "AB12CD"
    /\ quizContainer.index = 0
    /\ reviewingResult = 1
    /\ results[1].answers = << "Rome", Null >>
    /\ quizContainer.marks =
          << {"option-item", "correct"}, {"option-item", "selected", "incorrect"} >>

\* The page as new QuizApp() finds it when the page holding state s is
\* loaded again: the field initialisers and the localStorage of s.
Reloaded(s) == constructor(s)

\* The repositories an authoring flow can leave from the current one.
AuthoredRepositories ==
    {s.quizzes : s \in ManualSaves}
    \cup {generationSettled(generateQuizFromTopic(Cur, "Stars", "stars", "1", "3"),
                            Len(generations) + 1, outcome, draws).quizzes :
             outcome \in GeminiOutcomes, draws \in FreshDraws(quizzes)}

C26_PendingOnlyInLiveSession ==
    confirmationModal => (session = "active" /\ LiveSession)

\* C29: every Result of the list carries the name, the roll number and the
\* e-mail address given at the login that started its session, none of them
\* empty or missing, and the id of the quiz that session was started on.
C29_ResultsCarryLoginIdentity ==
    \A i \in 1..Len(results) :
        /\ results[i].studentName = sessionInfo.name
        /\ results[i].studentRoll = sessionInfo.roll
        /\ results[i].studentEmail = sessionInfo.email
        /\ results[i].studentName \notin {"", Undefined}
        /\ results[i].studentRoll \notin {"", Undefined}
        /\ results[i].studentEmail \notin {"", Undefined}
        /\ results[i].quizId = sessionQuiz

\* C30: when the summary of a Result says that the session timed out or was
\* ended for cheating, reviewing that Result and going back shows a summary
\* that says the same.
C30_ReasonKeptAcrossReview ==
    (resultsSection.result # 0 /\ reviewingResult = 0
        /\ resultsSection.message \in {"cheated", "timedOut"}) =>
        LET b == startReviewMode(Cur, resultsSection.result)
            e == submitQuizBtnClick(b)
        IN /\ e.resultsSection.result = resultsSection.result
           /\ e.resultsSection.message = resultsSection.message

\* C27: a session that was started does not stay active for ever: on the
\* page it was started on, with the clock moving and the interval callback
\* run, it ends, by the timeout at the latest, whether or not a confirmation
\* is left pending.  (The session is also over when the page is loaded anew,
\* and the obligation ends when a Result is put under review on top of it.)
C27_SessionEventuallyEnds ==
    (session = "active") ~> (session # "active" \/ reviewingResult # 0)

C27_Witness ==
    /\ session = "terminated"
    /\ appended = 1
    /\ resultsSection.message = "timedOut"
    /\ confirmationModal
    /\ now >= MaxClockSteps * ClockStep + ClockStep
    /\ Last(results).answers = << Null >>
    /\ Last(results).quizId = "XY34ZW"

\* The value loadDataFromStorage is to leave in memory for a stored item.
LoadedQuizzes(item) == IF item = NoItem THEN NoQuizzes ELSE JSONparseQuizzes(item[1])
LoadedResults(item) == IF item = NoItem THEN << >> ELSE JSONparseResults(item[1])

\* C28: loading a page on the localStorage of the current state leaves the
\* stored quizzes and results as they are (a missing item counting as an
\* empty one), and puts into memory the quizzes and results that are stored,
\* whatever the professors item holds.
C28_LoadReadOnly ==
    LET s == loadDataFromStorage(FreshPage(Cur))
    IN /\ LoadedQuizzes(s.storedQuizzes) = LoadedQuizzes(storedQuizzes)
       /\ LoadedResults(s.storedResults) = LoadedResults(storedResults)
       /\ s.quizzes = LoadedQuizzes(storedQuizzes)
       /\ s.results = LoadedResults(storedResults)

====
